---- MODULE Spec2Model ----
(***************************************************************************)
(* The page tree of the weather station display (pages.py): seven pages,   *)
(* two of them containers, driven by click() and update() calls.           *)
(*                                                                         *)
(* Conventions.                                                            *)
(*  - A Python value that may be None is None (the empty tuple) or         *)
(*    Some(x) (the one-element tuple holding x).                           *)
(*  - A Python str is a sequence of string pieces whose concatenation is   *)
(*    the text: "Min:3" is <<"Min:", "3">>, "" is <<>>.  Texts that the    *)
(*    code slices or formats are kept one character per piece.             *)
(*  - A temperature is an integer number of tenths of a degree (216 is     *)
(*    21.6), a timestamp an integer number of seconds.                     *)
(*  - A handler is an operator from the object graph (and its inputs) to   *)
(*    an outcome: the object graph it leaves, the calls it made on its     *)
(*    collaborators in order (trace) and the exception it let out, if any. *)
(***************************************************************************)
EXTENDS Integers, Sequences, FiniteSets, TLC

VARIABLES
    pages,            \* page -> sequence of its subpages        (Page.pages)
    current_page,     \* page -> None or Some(index), 0-based    (Page.current_page)
    weather_station,  \* the data the WeatherStation reports
    utcoffset,        \* the host's local time zone, in seconds east of UTC
    call,             \* the most recent event: [page, op]
    trace,            \* the collaborator calls that event made, in order
    raised,           \* None, or Some(exception) if that event raised
    clicks,           \* container -> number of click() calls made on it
    repeated          \* the event is an update() that follows an update() of the
                      \* same page with nothing in between

vars == <<pages, current_page, weather_station, utcoffset, call, trace, raised, clicks,
          repeated>>

None == <<>>
Some(x) == <<x>>
The(o) == o[1]

\* ------------------------------------------------------------------ bounds
MaxClicks == 3

\* ------------------------------------------------------------------ pages
TopPages == {"CurrentWeatherPage", "MinMaxTemperaturePage", "SettingsPage"}
Containers == {"MinMaxTemperaturePage", "SettingsPage"}
Leaves == {"CurrentWeatherPage", "MinMaxHoursPage", "ShutdownPage", "RebootPage", "BackPage"}
Pages == Containers \cup Leaves

\* Page.__init__ and the subclasses' __init__: every page starts with
\* current_page = None; the containers append their subpages in order.
InitPages ==
    [p \in Pages |->
        CASE p = "MinMaxTemperaturePage" -> <<"MinMaxHoursPage">>
          [] p = "SettingsPage" -> <<"ShutdownPage", "RebootPage", "BackPage">>
          [] OTHER -> <<>>]

\* Page.__init__ numbering the main page 0 instead of None.
Mutant_C4_InitCurrentPage == [p \in Pages |-> IF p \in Containers THEN Some(0) ELSE None]

InitCurrentPage == [p \in Pages |-> None]

\* -------------------------------------------------------- collaborator calls
Ev(op, args) == [op |-> op, args |-> args]

Raise(exc) == Ev("raise", <<<<exc>>>>)

\* The calls that leave the page tree and may raise: the Screen's draw
\* primitives and the opening of an image file.
ScreenOps == {"display", "display_top_bottom", "display_bitmap", "display_text"}
FallibleOps == ScreenOps \cup {"Image.open"}

RECURSIVE NFallible(_)
NFallible(steps) ==
    IF steps = <<>> THEN 0
    ELSE NFallible(Tail(steps)) + (IF Head(steps).op \in FallibleOps THEN 1 ELSE 0)

\* The position at which the run of steps stops early: the first raise
\* statement, or the fail-th fallible call (fail = 0: none fails);
\* Len(steps) + 1 if it runs to its end.
StopAt(steps, fail) ==
    LET Stops(i) == \/ steps[i].op = "raise"
                    \/ /\ steps[i].op \in FallibleOps
                       /\ fail > 0
                       /\ NFallible(SubSeq(steps, 1, i)) = fail
        S == {i \in 1..Len(steps) : Stops(i)}
    IN IF S = {} THEN Len(steps) + 1 ELSE CHOOSE i \in S : \A j \in S : i <= j

Run(steps, fail) ==
    LET k == StopAt(steps, fail)
    IN [trace |-> SubSeq(steps, 1, k - 1),
        raised |-> IF k > Len(steps) THEN None
                   ELSE IF steps[k].op = "raise" THEN Some(steps[k].args[1][1])
                   ELSE Some(steps[k].op)]

Ret(heap, steps, fail) ==
    LET r == Run(steps, fail)
    IN [heap |-> heap, trace |-> r.trace, raised |-> r.raised]

\* ------------------------------------------------------------- formatting
Digit(d) == <<"0", "1", "2", "3", "4", "5", "6", "7", "8", "9">>[d + 1]

\* str(n) for an int n.
RECURSIVE Str(_)
Str(n) ==
    IF n < 0 THEN <<"-">> \o Str(-n)
    ELSE IF n < 10 THEN <<Digit(n)>>
    ELSE Str(n \div 10) \o <<Digit(n % 10)>>

\* round(x) for x given in tenths: to the nearest integer, a half to the
\* even neighbour (Python 3).
Round(t) ==
    LET q == t \div 10
        r == t % 10
    IN IF r < 5 THEN q
       ELSE IF r > 5 THEN q + 1
       ELSE IF q % 2 = 0 THEN q ELSE q + 1

\* datetime.fromtimestamp(ts).strftime('%H:%M') on a host off seconds east.
TwoDigits(n) == <<Digit(n \div 10), Digit(n % 10)>>

StrfHM(ts, off) ==
    LET local == ts + off
    IN TwoDigits((local \div 3600) % 24) \o <<":">> \o TwoDigits((local \div 60) % 60)

\* s[:2]
\* The icon file named by the whole icon code (the [:2] left out).
Mutant_C12_Prefix2(s) == s

Prefix2(s) == SubSeq(s, 1, IF Len(s) < 2 THEN Len(s) ELSE 2)

\* Path(base_path) / "icons/{}.bmp".format(code)
IconFile(code) == <<"base_path", "/icons/">> \o code \o <<".bmp">>

\* ---------------------------------------------------------- weather data
\* What the WeatherStation may report; every field may be absent.
Coldest == [temp_min |-> -15, temp_max |-> 51, reference_time |-> 22500]
Hottest == [temp_min |-> 32, temp_max |-> 187, reference_time |-> 56520]

Opt(S) == {None} \cup {Some(x) : x \in S}

WeatherFields ==
    [weather_hour |-> Opt({"weather"}),
     outside_temp |-> Opt({216}),
     icon |-> Opt({<<"1", "0", "d">>}),
     inside_temp |-> Opt({225}),
     coldest |-> Opt({Coldest}),
     hottest |-> Opt({Hottest})]

WeatherStates ==
    [weather_hour : WeatherFields.weather_hour,
     outside_temp : WeatherFields.outside_temp,
     icon : WeatherFields.icon,
     inside_temp : WeatherFields.inside_temp,
     coldest : WeatherFields.coldest,
     hottest : WeatherFields.hottest]

UtcOffsets == {0, 3600}

\* ------------------------------------------------------------ leaf pages
\* CurrentWeatherPage.update
CurrentWeatherPage_steps(ws) ==
    LET outside == ws.weather_hour # None
        early == IF ~outside THEN <<>>
                 ELSE IF ws.outside_temp = None THEN <<Raise("TypeError")>>
                 ELSE IF ws.icon = None THEN <<Raise("TypeError")>>
                 ELSE <<Ev("Image.open", <<IconFile(Prefix2(The(ws.icon)))>>)>>
        outside_temp == IF outside /\ ws.outside_temp # None
                        THEN Some(Str(Round(The(ws.outside_temp)))) ELSE None
        img == IF outside /\ ws.icon # None
               THEN Some(IconFile(Prefix2(The(ws.icon)))) ELSE None
        inside_temp == IF ws.inside_temp # None
                       THEN Some(Str(Round(The(ws.inside_temp)))) ELSE None
    IN early \o <<Ev("display", <<outside_temp, inside_temp, img>>),
                  Ev("print", <<<<"Screen updated.">>>>)>>

CurrentWeatherPage_update(heap, ws, fail) == Ret(heap, CurrentWeatherPage_steps(ws), fail)

CurrentWeatherPage_click(heap, fail) ==
    Ret(heap, <<Ev("print", <<<<"CurrentWeatherPage clicked">>>>)>>, fail)

\* MinMaxHoursPage.update
MinMaxHoursPage_steps(ws, off) ==
    IF ws.coldest # None
    THEN IF ws.hottest = None THEN <<Raise("AttributeError")>>
         ELSE <<Ev("display_top_bottom",
                   <<StrfHM(The(ws.coldest).reference_time, off),
                     StrfHM(The(ws.hottest).reference_time, off)>>)>>
    ELSE <<Ev("display_top_bottom", <<<<"Hours">>, <<"error">>>>)>>

MinMaxHoursPage_update(heap, ws, off, fail) == Ret(heap, MinMaxHoursPage_steps(ws, off), fail)

MinMaxHoursPage_click(heap, fail) ==
    Ret(heap, <<Ev("print", <<<<"MinMaxHoursPage clicked">>>>)>>, fail)

\* ShutdownPage / RebootPage
Sleep == Ev("time.sleep", <<<<"0.2">>>>)

Text(s) == Ev("display_text", <<s>>)

ShutdownCommand == <<"sudo shutdown -h now">>
RebootCommand == <<"sudo reboot">>

ShutdownPage_update(heap, fail) == Ret(heap, <<Text(<<"SHUTDOWN">>)>>, fail)

\* ShutdownPage.click issuing the command before the display is cleared.
Mutant_C6_ShutdownPage_steps ==
    <<Ev("print", <<<<"Shutdown clicked">>>>),
      Text(<<".">>), Sleep,
      Text(<<".", ".">>), Sleep,
      Text(<<".", ".", ".">>), Sleep,
      Text(<<".", ".", ".", ".">>), Sleep,
      Ev("os.system", <<ShutdownCommand>>),
      Text(<<>>)>>

\* ShutdownPage.click that plays the animation and issues nothing.
Mutant_C7_ShutdownPage_steps ==
    <<Ev("print", <<<<"Shutdown clicked">>>>),
      Text(<<".">>), Sleep,
      Text(<<".", ".">>), Sleep,
      Text(<<".", ".", ".">>), Sleep,
      Text(<<".", ".", ".", ".">>), Sleep,
      Text(<<>>)>>

ShutdownPage_steps ==
    <<Ev("print", <<<<"Shutdown clicked">>>>),
      Text(<<".">>), Sleep,
      Text(<<".", ".">>), Sleep,
      Text(<<".", ".", ".">>), Sleep,
      Text(<<".", ".", ".", ".">>), Sleep,
      Text(<<>>),
      Ev("os.system", <<ShutdownCommand>>)>>

ShutdownPage_click(heap, fail) == Ret(heap, ShutdownPage_steps, fail)

RebootPage_update(heap, fail) == Ret(heap, <<Text(<<"REBOOT">>)>>, fail)

\* RebootPage.click left with the command of the ShutdownPage.click it was
\* copied from.
Mutant_C5_RebootPage_steps ==
    <<Ev("print", <<<<"Reboot clicked">>>>),
      Text(<<".">>), Sleep,
      Text(<<".", ".">>), Sleep,
      Text(<<".", ".", ".">>), Sleep,
      Text(<<".", ".", ".", ".">>), Sleep,
      Text(<<>>),
      Ev("os.system", <<ShutdownCommand>>)>>

RebootPage_steps ==
    <<Ev("print", <<<<"Reboot clicked">>>>),
      Text(<<".">>), Sleep,
      Text(<<".", ".">>), Sleep,
      Text(<<".", ".", ".">>), Sleep,
      Text(<<".", ".", ".", ".">>), Sleep,
      Text(<<>>),
      Ev("os.system", <<RebootCommand>>)>>

RebootPage_click(heap, fail) == Ret(heap, RebootPage_steps, fail)

\* BackPage
BackPage_update(heap, fail) == Ret(heap, <<Text(<<"BACK">>)>>, fail)

\* BackPage.click blanking the display before the parent goes back.
Mutant_C13_BackPage_click(heap, fail) ==
    Ret(heap, <<Ev("print", <<<<"Back clicked">>>>), Text(<<>>)>>, fail)

BackPage_click(heap, fail) == Ret(heap, <<Ev("print", <<<<"Back clicked">>>>)>>, fail)

\* ------------------------------------------------------------ containers
\* subpage.update() and subpage.click() dispatch on the object's class.
RECURSIVE Update(_, _, _, _, _)
RECURSIVE Click(_, _, _)

\* self.pages[self.current_page]: the subpage, or None if the index is
\* outside the list (IndexError).
Subpage(heap, self) ==
    LET i == The(heap.current_page[self])
    IN IF i + 1 \in DOMAIN heap.pages[self] THEN Some(heap.pages[self][i + 1]) ELSE None

\* MinMaxTemperaturePage.update on the main page
MinMaxTemperaturePage_steps(ws) ==
    IF ws.coldest # None
    THEN IF ws.hottest = None THEN <<Raise("AttributeError")>>
         ELSE <<Ev("display_top_bottom",
                   <<<<"Min:">> \o Str(Round(The(ws.coldest).temp_min)),
                     <<"Max:">> \o Str(Round(The(ws.hottest).temp_max))>>)>>
    ELSE <<Ev("display_top_bottom", <<<<"Min Max">>, <<"error">>>>)>>

\* MinMaxTemperaturePage.update going back to the main page once the
\* subpage is drawn.
Mutant_C10_MinMaxTemperaturePage_update(heap, ws, off, fail) ==
    LET self == "MinMaxTemperaturePage"
    IN IF heap.current_page[self] = None
       THEN Ret(heap, MinMaxTemperaturePage_steps(ws), fail)
       ELSE LET r == Update(The(Subpage(heap, self)), heap, ws, off, fail)
            IN [r EXCEPT !.heap.current_page[self] = None]

\* MinMaxTemperaturePage.update drawing its own view and then the
\* subpage's (the else of the main-page test lost).
Mutant_C16_MinMaxTemperaturePage_update(heap, ws, off, fail) ==
    LET self == "MinMaxTemperaturePage"
    IN IF heap.current_page[self] = None
       THEN Ret(heap, MinMaxTemperaturePage_steps(ws), fail)
       ELSE LET r == Update(The(Subpage(heap, self)), heap, ws, off, 0)
            IN Ret(heap, MinMaxTemperaturePage_steps(ws) \o r.trace, fail)

MinMaxTemperaturePage_update(heap, ws, off, fail) ==
    LET self == "MinMaxTemperaturePage"
    IN IF heap.current_page[self] = None
       THEN Ret(heap, MinMaxTemperaturePage_steps(ws), fail)
       ELSE IF Subpage(heap, self) = None THEN Ret(heap, <<Raise("IndexError")>>, fail)
       ELSE Update(The(Subpage(heap, self)), heap, ws, off, fail)

\* MinMaxTemperaturePage.click with the return to the main page keyed on the
\* wrong class (the test of SettingsPage.click).
Mutant_C1_MinMaxTemperaturePage_click(heap, fail) ==
    LET self == "MinMaxTemperaturePage"
    IN IF heap.current_page[self] = None
       THEN Ret([heap EXCEPT !.current_page[self] = Some(0)], <<>>, fail)
       ELSE LET subpage == The(Subpage(heap, self))
                r == Click(subpage, heap, fail)
            IN IF r.raised = None /\ subpage = "BackPage"
               THEN [r EXCEPT !.heap.current_page[self] = None]
               ELSE r

\* MinMaxTemperaturePage.click entering subpage 1, as the comment of
\* Page.__init__ numbers the first subpage.
Mutant_C3_MinMaxTemperaturePage_click(heap, fail) ==
    LET self == "MinMaxTemperaturePage"
    IN IF heap.current_page[self] = None
       THEN Ret([heap EXCEPT !.current_page[self] = Some(1)], <<>>, fail)
       ELSE IF Subpage(heap, self) = None THEN Ret(heap, <<Raise("IndexError")>>, fail)
       ELSE LET subpage == The(Subpage(heap, self))
                r == Click(subpage, heap, fail)
            IN IF r.raised = None /\ subpage = "MinMaxHoursPage"
               THEN [r EXCEPT !.heap.current_page[self] = None]
               ELSE r

MinMaxTemperaturePage_click(heap, fail) ==
    LET self == "MinMaxTemperaturePage"
    IN IF heap.current_page[self] = None
       THEN Ret([heap EXCEPT !.current_page[self] = Some(0)], <<>>, fail)
       ELSE IF Subpage(heap, self) = None THEN Ret(heap, <<Raise("IndexError")>>, fail)
       ELSE LET subpage == The(Subpage(heap, self))
                r == Click(subpage, heap, fail)
            IN IF r.raised = None /\ subpage = "MinMaxHoursPage"
               THEN [r EXCEPT !.heap.current_page[self] = None]
               ELSE r

\* SettingsPage.update on the main page
SettingsPage_steps ==
    <<Ev("Image.open", <<<<"base_path", "/icons/cog.bmp">>>>),
      Ev("display_bitmap", <<<<"base_path", "/icons/cog.bmp">>>>)>>

\* SettingsPage.update drawing the cogwheel before it passes the update on
\* (the else of the main-page test lost).
Mutant_C9_SettingsPage_update(heap, ws, off, fail) ==
    LET self == "SettingsPage"
    IN IF heap.current_page[self] = None
       THEN Ret(heap, SettingsPage_steps, fail)
       ELSE LET r == Update(The(Subpage(heap, self)), heap, ws, off, 0)
            IN Ret(heap, SettingsPage_steps \o r.trace, fail)

\* SettingsPage.update selecting the first subpage once the cogwheel is
\* drawn.
Mutant_C11_SettingsPage_update(heap, ws, off, fail) ==
    LET self == "SettingsPage"
    IN IF heap.current_page[self] = None
       THEN Ret([heap EXCEPT !.current_page[self] = Some(0)], SettingsPage_steps, fail)
       ELSE Update(The(Subpage(heap, self)), heap, ws, off, fail)

SettingsPage_update(heap, ws, off, fail) ==
    LET self == "SettingsPage"
    IN IF heap.current_page[self] = None
       THEN Ret(heap, SettingsPage_steps, fail)
       ELSE IF Subpage(heap, self) = None THEN Ret(heap, <<Raise("IndexError")>>, fail)
       ELSE Update(The(Subpage(heap, self)), heap, ws, off, fail)

\* SettingsPage.click going back to the main page after a click on any
\* subpage (the class test left out).
Mutant_C2_SettingsPage_click(heap, fail) ==
    LET self == "SettingsPage"
    IN IF heap.current_page[self] = None
       THEN Ret([heap EXCEPT !.current_page[self] = Some(0)], <<>>, fail)
       ELSE LET subpage == The(Subpage(heap, self))
                r == Click(subpage, heap, fail)
            IN IF r.raised = None
               THEN [r EXCEPT !.heap.current_page[self] = None]
               ELSE r

\* SettingsPage.click stepping to the next subpage on every click that is not
\* on the BackPage (a menu that cycles).
Mutant_C14_SettingsPage_click(heap, fail) ==
    LET self == "SettingsPage"
    IN IF heap.current_page[self] = None
       THEN Ret([heap EXCEPT !.current_page[self] = Some(0)], <<>>, fail)
       ELSE LET subpage == The(Subpage(heap, self))
            IN IF subpage = "BackPage"
               THEN [Click(subpage, heap, fail) EXCEPT !.heap.current_page[self] = None]
               ELSE Ret([heap EXCEPT !.current_page[self] = Some(The(@) + 1)], <<>>, fail)

\* SettingsPage.click going back to the main page after a click on the
\* first subpage (the class test naming the wrong class).
Mutant_C15_SettingsPage_click(heap, fail) ==
    LET self == "SettingsPage"
    IN IF heap.current_page[self] = None
       THEN Ret([heap EXCEPT !.current_page[self] = Some(0)], <<>>, fail)
       ELSE LET subpage == The(Subpage(heap, self))
                r == Click(subpage, heap, fail)
            IN IF r.raised = None /\ subpage = "ShutdownPage"
               THEN [r EXCEPT !.heap.current_page[self] = None]
               ELSE r

SettingsPage_click(heap, fail) ==
    LET self == "SettingsPage"
    IN IF heap.current_page[self] = None
       THEN Ret([heap EXCEPT !.current_page[self] = Some(0)], <<>>, fail)
       ELSE IF Subpage(heap, self) = None THEN Ret(heap, <<Raise("IndexError")>>, fail)
       ELSE LET subpage == The(Subpage(heap, self))
                r == Click(subpage, heap, fail)
            IN IF r.raised = None /\ subpage = "BackPage"
               THEN [r EXCEPT !.heap.current_page[self] = None]
               ELSE r

Update(self, heap, ws, off, fail) ==
    CASE self = "CurrentWeatherPage" -> CurrentWeatherPage_update(heap, ws, fail)
      [] self = "MinMaxTemperaturePage" -> MinMaxTemperaturePage_update(heap, ws, off, fail)
      [] self = "MinMaxHoursPage" -> MinMaxHoursPage_update(heap, ws, off, fail)
      [] self = "SettingsPage" -> SettingsPage_update(heap, ws, off, fail)
      [] self = "ShutdownPage" -> ShutdownPage_update(heap, fail)
      [] self = "RebootPage" -> RebootPage_update(heap, fail)
      [] self = "BackPage" -> BackPage_update(heap, fail)

Click(self, heap, fail) ==
    CASE self = "CurrentWeatherPage" -> CurrentWeatherPage_click(heap, fail)
      [] self = "MinMaxTemperaturePage" -> MinMaxTemperaturePage_click(heap, fail)
      [] self = "MinMaxHoursPage" -> MinMaxHoursPage_click(heap, fail)
      [] self = "SettingsPage" -> SettingsPage_click(heap, fail)
      [] self = "ShutdownPage" -> ShutdownPage_click(heap, fail)
      [] self = "RebootPage" -> RebootPage_click(heap, fail)
      [] self = "BackPage" -> BackPage_click(heap, fail)

\* ------------------------------------------------------------ the system
Heap == [pages |-> pages, current_page |-> current_page]

Init ==
    /\ pages = InitPages
    /\ current_page = InitCurrentPage
    /\ weather_station \in WeatherStates
    /\ utcoffset \in UtcOffsets
    /\ call = [page |-> "none", op |-> "init"]
    /\ trace = <<>>
    /\ raised = None
    /\ clicks = [p \in Containers |-> 0]
    /\ repeated = FALSE

Outcome(r) ==
    /\ pages' = r.heap.pages
    /\ current_page' = r.heap.current_page
    /\ trace' = r.trace
    /\ raised' = r.raised

\* The driver calls click() on a top-level page.  Any one of the fallible
\* calls the handler makes may raise (fail names which; 0: none does).
DriverClick(p) ==
    /\ p \in Containers => clicks[p] < MaxClicks
    /\ \E fail \in 0..NFallible(Click(p, Heap, 0).trace) :
          Outcome(Click(p, Heap, fail))
    /\ call' = [page |-> p, op |-> "click"]
    /\ clicks' = IF p \in Containers THEN [clicks EXCEPT ![p] = @ + 1] ELSE clicks
    /\ repeated' = FALSE
    /\ UNCHANGED <<weather_station, utcoffset>>

\* The driver calls update() on a top-level page.
DriverUpdate(p) ==
    /\ \E fail \in 0..NFallible(Update(p, Heap, weather_station, utcoffset, 0).trace) :
          Outcome(Update(p, Heap, weather_station, utcoffset, fail))
    /\ call' = [page |-> p, op |-> "update"]
    /\ repeated' = (call = [page |-> p, op |-> "update"])
    /\ UNCHANGED <<weather_station, utcoffset, clicks>>

\* The WeatherStation refreshes its data between two calls.
WeatherChange ==
    /\ \E f \in DOMAIN weather_station :
         \E v \in WeatherFields[f] :
            /\ v # weather_station[f]
            /\ weather_station' = [weather_station EXCEPT ![f] = v]
    /\ call' = [page |-> "none", op |-> "refresh"]
    /\ trace' = <<>>
    /\ raised' = None
    /\ repeated' = FALSE
    /\ UNCHANGED <<pages, current_page, utcoffset, clicks>>

\* The control that moves a SettingsPage among its subpages.
SelectSubpage(i) ==
    /\ current_page["SettingsPage"] # None
    /\ i + 1 \in DOMAIN pages["SettingsPage"]
    /\ current_page' = [current_page EXCEPT !["SettingsPage"] = Some(i)]
    /\ call' = [page |-> "SettingsPage", op |-> "select"]
    /\ trace' = <<>>
    /\ raised' = None
    /\ repeated' = FALSE
    /\ UNCHANGED <<pages, weather_station, utcoffset, clicks>>

Next ==
    \/ \E p \in TopPages : DriverClick(p)
    \/ \E p \in TopPages : DriverUpdate(p)
    \/ WeatherChange

Spec == Init /\ [][Next]_vars

NextSelect ==
    \/ Next
    \/ \E i \in 0..2 : SelectSubpage(i)

SpecSelect == Init /\ [][NextSelect]_vars

\* ================================================================ claims
MinMax == "MinMaxTemperaturePage"
Settings == "SettingsPage"

Draws(t) == SelectSeq(t, LAMBDA e : e.op \in ScreenOps)
Commands(t) == SelectSeq(t, LAMBDA e : e.op = "os.system")
IsPrefix(a, b) == Len(a) <= Len(b) /\ a = SubSeq(b, 1, Len(a))

\* The step is a click() of the driver on container p.
ClickStep(p) == clicks'[p] = clicks[p] + 1

\* The step is an update() of the driver on page p.
UpdateStep(p) == call' = [page |-> p, op |-> "update"]

\* The subpage a container in SUB has selected (in the state before a step).
Selected(p) == pages[p][The(current_page[p]) + 1]

C4_StartsOnMain ==
    /\ [](call.op = "init" =>
            /\ \A p \in Pages : current_page[p] = None
            /\ pages[MinMax] = <<"MinMaxHoursPage">>
            /\ pages[Settings] = <<"ShutdownPage", "RebootPage", "BackPage">>
            /\ \A p \in Leaves : pages[p] = <<>>)
    /\ [][\A p \in Containers :
            (UpdateStep(p) /\ clicks[p] = 0) =>
                IsPrefix(trace', IF p = MinMax
                                 THEN MinMaxTemperaturePage_steps(weather_station)
                                 ELSE SettingsPage_steps)]_vars

C4_Witness ==
    /\ clicks[Settings] = 0
    /\ call = [page |-> Settings, op |-> "update"]
    /\ Draws(trace) = <<Ev("display_bitmap", <<<<"base_path", "/icons/cog.bmp">>>>)>>

\* C5: a host command is issued only by a click() passed on to the
\* ShutdownPage (the shutdown command) or to the RebootPage (the reboot
\* command): never by an update(), by a click() on a container's main page,
\* or by a click() on any other page.
C5_CommandsOnlyFromPowerPages ==
    [][Commands(trace') # <<>> =>
        /\ ClickStep(Settings)
        /\ current_page[Settings] # None
        /\ \/ /\ Selected(Settings) = "ShutdownPage"
              /\ Commands(trace') = <<Ev("os.system", <<<<"sudo shutdown -h now">>>>)>>
           \/ /\ Selected(Settings) = "RebootPage"
              /\ Commands(trace') = <<Ev("os.system", <<<<"sudo reboot">>>>)>>]_vars

C5_Witness ==
    /\ call = [page |-> Settings, op |-> "click"]
    /\ current_page[Settings] = Some(1)
    /\ Commands(trace) = <<Ev("os.system", <<RebootCommand>>)>>

\* The loading animation: the frames and the pauses between them.
Frames == <<Text(<<".">>), Text(<<".", ".">>), Text(<<".", ".", ".">>),
            Text(<<".", ".", ".", ".">>), Text(<<>>)>>

Animation == <<Frames[1], Sleep, Frames[2], Sleep, Frames[3], Sleep, Frames[4], Sleep,
               Frames[5]>>

PowerCommand(page) ==
    IF page = "ShutdownPage" THEN <<"sudo shutdown -h now">> ELSE <<"sudo reboot">>

\* The step is a click() passed on to the ShutdownPage or the RebootPage.
PowerClickStep(page) ==
    /\ ClickStep(Settings)
    /\ current_page[Settings] # None
    /\ Selected(Settings) = page

\* The state is the one a click() on the ShutdownPage or the RebootPage
\* leaves: both say so first.
AfterPowerClick ==
    /\ call = [page |-> Settings, op |-> "click"]
    /\ trace # <<>>
    /\ trace[1] \in {Ev("print", <<<<"Shutdown clicked">>>>),
                     Ev("print", <<<<"Reboot clicked">>>>)}

\* C6: ShutdownPage.click() and RebootPage.click() draw ".", "..", "...",
\* "...." and the empty text, in that order, with a pause after each of the
\* four dot frames, and issue the host command once, as the last thing they
\* do, after all five frames; the two draw the same and differ in the
\* command only.  (What they draw is an initial part of that sequence, and
\* all of it when the click returns.)
C6_AnimationThenCommand ==
    [][\A page \in {"ShutdownPage", "RebootPage"} :
        PowerClickStep(page) =>
            LET t == trace'
                body == SelectSeq(t, LAMBDA e : e.op \notin {"print", "os.system"})
            IN /\ IsPrefix(body, Animation)
               /\ Len(Commands(t)) <= 1
               /\ Commands(t) # <<>> =>
                     /\ body = Animation
                     /\ Draws(t) = Frames
                     /\ t[Len(t)] = Ev("os.system", <<PowerCommand(page)>>)
               /\ raised' = None => Len(Commands(t)) = 1]_vars

C6_Witness ==
    /\ call = [page |-> Settings, op |-> "click"]
    /\ current_page[Settings] = Some(0)
    /\ raised = None
    /\ Len(trace) = 11
    /\ Draws(trace) = Frames
    /\ trace[11] = Ev("os.system", <<ShutdownCommand>>)

C8_Original ==
    (call.op = "update" /\ call.page \in {"CurrentWeatherPage", MinMax}) =>
        /\ raised \notin {Some("TypeError"), Some("AttributeError")}
        /\ raised = None => Len(Draws(trace)) = 1
        /\ (raised = None /\ call.page = MinMax /\ weather_station.coldest = None) =>
              Draws(trace)[1].args[2] = <<"error">>
        /\ (raised = None /\ call.page = "CurrentWeatherPage"
              /\ weather_station.weather_hour = None) =>
              /\ Draws(trace)[1].args[1] = None
              /\ Draws(trace)[1].args[3] = None

\* update() called on the subpage itself.
SubpageUpdate(page, fail) ==
    CASE page = "MinMaxHoursPage" ->
            MinMaxHoursPage_update(Heap, weather_station, utcoffset, fail)
      [] page = "ShutdownPage" -> ShutdownPage_update(Heap, fail)
      [] page = "RebootPage" -> RebootPage_update(Heap, fail)
      [] page = "BackPage" -> BackPage_update(Heap, fail)

MainSteps(p) ==
    IF p = MinMax THEN MinMaxTemperaturePage_steps(weather_station) ELSE SettingsPage_steps

\* An event of a container's own main view.
OwnRendering(e) ==
    \/ e.op \in {"display_bitmap", "Image.open"}
    \/ e.op = "display_top_bottom" /\ e.args[1][1] \in {"Min:", "Min Max"}

\* C9: update() on a container with a subpage selected makes the draw calls
\* that update() on that subpage makes for the same data, and none of the
\* container's own; on its main page it makes its own only.
C9_UpdateDelegates ==
    [][\A p \in Containers :
        UpdateStep(p) =>
            IF current_page[p] # None
            THEN /\ \E fail \in 0..1 :
                      LET r == SubpageUpdate(Selected(p), fail)
                      IN Draws(trace') = Draws(r.trace) /\ raised' = r.raised
                 /\ \A i \in DOMAIN trace' : ~OwnRendering(trace'[i])
            ELSE /\ \E fail \in 0..2 :
                      LET r == Run(MainSteps(p), fail)
                      IN trace' = r.trace /\ raised' = r.raised
                 /\ \A i \in DOMAIN trace' : OwnRendering(trace'[i])]_vars

C9_Witness ==
    /\ call = [page |-> Settings, op |-> "update"]
    /\ current_page[Settings] = Some(2)
    /\ trace = <<Text(<<"BACK">>)>>

\* C10: update() changes no current_page and no pages list, on any page, in
\* any state, for any data; click() changes no pages list; so the only
\* thing of the page tree that ever changes is a current_page, and only on a
\* click().
C10_UpdateKeepsNavigation ==
    [][/\ call'.op = "update" => (current_page' = current_page /\ pages' = pages)
       /\ pages' = pages
       /\ current_page' # current_page => call'.op = "click"]_vars

C10_Witness ==
    /\ call = [page |-> MinMax, op |-> "update"]
    /\ current_page[MinMax] = Some(0)
    /\ current_page[Settings] = Some(0)
    /\ Len(Draws(trace)) = 1

\* The call ended on a failure of a collaborator (the Screen, the image
\* file), which is no matter of the page's state or of the weather data.
CollaboratorFailed(r) == \E op \in FallibleOps : r = Some(op)

\* C11: update() called again on the same page, with no click() and no
\* change of the weather data in between, makes the same Screen draw calls
\* (same primitive, same arguments): the draw calls of the two are the same
\* as far as both went, and the same when no collaborator failed in either.
C11_UpdateRepeats ==
    [][\A p \in TopPages :
        (call = [page |-> p, op |-> "update"] /\ UpdateStep(p) /\ repeated') =>
            /\ weather_station' = weather_station
            /\ current_page' = current_page
            /\ \/ IsPrefix(Draws(trace), Draws(trace'))
               \/ IsPrefix(Draws(trace'), Draws(trace))
            /\ (~CollaboratorFailed(raised) /\ ~CollaboratorFailed(raised')) =>
                  (trace' = trace /\ raised' = raised)]_vars

C11_Witness ==
    /\ repeated
    /\ call = [page |-> MinMax, op |-> "update"]
    /\ current_page[MinMax] = Some(0)
    /\ raised = None
    /\ Len(Draws(trace)) = 1

\* C12: the Screen.display call of CurrentWeatherPage.update() gets an
\* absent outside text and an absent icon whenever the outside data is
\* unavailable (weather_hour absent), and an inside text that is present
\* exactly when inside_temp is, whether the outside data is available or
\* not; with the outside data available the icon is the file named by the
\* first two characters of the icon code.  The call is made whenever the
\* outside data is unavailable, unless the Screen fails.
C12_DisplayArguments ==
    [][UpdateStep("CurrentWeatherPage") =>
        LET ws == weather_station
            shown == SelectSeq(trace', LAMBDA e : e.op = "display")
        IN /\ Len(shown) <= 1
           /\ (raised' = None \/ ws.weather_hour = None) =>
                 (Len(shown) = 1 <=> raised' = None)
           /\ \A i \in DOMAIN shown :
                LET outside_text == shown[i].args[1]
                    inside_text == shown[i].args[2]
                    icon == shown[i].args[3]
                IN /\ ws.weather_hour = None => (outside_text = None /\ icon = None)
                   /\ inside_text # None <=> ws.inside_temp # None
                   /\ ws.inside_temp = Some(225) => inside_text = Some(<<"2", "2">>)
                   /\ ws.weather_hour # None =>
                        /\ outside_text # None
                        /\ ws.outside_temp = Some(216) => outside_text = Some(<<"2", "2">>)
                        /\ icon = Some(<<"base_path", "/icons/",
                                         The(ws.icon)[1], The(ws.icon)[2], ".bmp">>)
                        /\ trace'[1] = Ev("Image.open", <<The(icon)>>)]_vars

C12_Witness ==
    /\ call = [page |-> "CurrentWeatherPage", op |-> "update"]
    /\ weather_station.weather_hour = None
    /\ weather_station.outside_temp # None
    /\ weather_station.icon # None
    /\ weather_station.inside_temp # None
    /\ trace[1] = Ev("display", <<None, Some(<<"2", "2">>), None>>)

\* A click() that did nothing but log: no Screen call, no host command, no
\* exception.
OnlyLogged(t, r) ==
    /\ r = None
    /\ Len(t) = 1
    /\ t[1].op = "print"
    /\ Draws(t) = <<>>
    /\ Commands(t) = <<>>

\* The click() of a leaf, called on the page tree as it is.
LeafClick(page) ==
    CASE page = "CurrentWeatherPage" -> CurrentWeatherPage_click(Heap, 0)
      [] page = "MinMaxHoursPage" -> MinMaxHoursPage_click(Heap, 0)
      [] page = "BackPage" -> BackPage_click(Heap, 0)

\* C13: click() on the CurrentWeatherPage, the MinMaxHoursPage and the
\* BackPage changes no current_page and no pages list, draws nothing and
\* issues no command; after a click passed on to the MinMaxHoursPage or the
\* BackPage the only change is the parent's own current_page, made by the
\* parent.
C13_LeafClicksDoNothing ==
    [][/\ call' = [page |-> "CurrentWeatherPage", op |-> "click"] =>
            /\ OnlyLogged(trace', raised')
            /\ current_page' = current_page
            /\ pages' = pages
       /\ \A p \in Containers :
            (/\ ClickStep(p)
             /\ current_page[p] # None
             /\ Selected(p) \in {"MinMaxHoursPage", "BackPage"}) =>
                /\ OnlyLogged(trace', raised')
                /\ LeafClick(Selected(p)).heap = Heap
                /\ LeafClick(Selected(p)).trace = trace'
                /\ pages' = pages
                /\ \A q \in Pages \ {p} : current_page'[q] = current_page[q]]_vars

C13_Witness ==
    /\ call = [page |-> Settings, op |-> "click"]
    /\ trace = <<Ev("print", <<<<"Back clicked">>>>)>>
    /\ current_page[Settings] = None
    /\ current_page[MinMax] = Some(0)
    /\ clicks[Settings] = 2

C16_OneDrawPerUpdate ==
    (call.op = "update" /\ raised = None) => Len(Draws(trace)) = 1

C16_Witness ==
    /\ call = [page |-> MinMax, op |-> "update"]
    /\ raised = None
    /\ current_page[MinMax] = Some(0)
    /\ weather_station.coldest # None
    /\ Draws(trace) = trace
    /\ Len(trace) = 1

====
